---- MODULE Spec2Model ----
(***************************************************************************)
(* The workflow execution engine of the LangChain automation platform:     *)
(* WorkflowExecutor (src/langchain-automation/app.py), its registry        *)
(* active_executions, the traversal _build_execution_path, the node        *)
(* handlers, and the status query of WorkflowBotCommands                   *)
(* (src/langchain-automation/integration.py).                              *)
(*                                                                         *)
(* Node ids are the integers 1..; a node list holds the nodes 1..n in      *)
(* list order, and an id above n names no node (a dangling edge).          *)
(* Failures are Python Exceptions; BaseException (process exit, task       *)
(* cancellation) ends the process and is outside the model.                *)
(***************************************************************************)
EXTENDS Integers, Sequences, FiniteSets, TLC

\* ------------------------------------------------------------------ bounds

\* The node lists the traversal is checked on: most nodes, and most successor
\* ids summed over the nodes' connections.
MaxPathNodes == 3
MaxPathEdges == 3

\* The workflows one run is checked on.
MaxNodes == 3
MaxEdges == 2

\* The workflows concurrent runs are checked on.
MaxSharedNodes == 2
MaxSharedEdges == 1

\* Most calls of execute_workflow in one behaviour.
MaxExecutions == 2

\* ------------------------------------------------------------- data model

\* class NodeType(Enum)
NodeType == {"trigger", "action", "condition", "ai_agent", "transform", "output"}

\* class WorkflowStatus(Enum)
WorkflowStatus == {"draft", "active", "paused", "error", "completed"}

\* The ids a connection may name in a list of at most n nodes: those of the
\* nodes and one that names none.
NodeIds(n) == 1 .. (n + 1)

\* next((n for n in nodes if n.id == node_id), None): the position of the
\* first node of the list with that id, 0 for None.
FindNode(nodes, node_id) ==
    IF \E i \in 1 .. Len(nodes) : nodes[i].id = node_id
    THEN CHOOSE i \in 1 .. Len(nodes) :
            /\ nodes[i].id = node_id
            /\ \A j \in 1 .. (i - 1) : nodes[j].id # node_id
    ELSE 0


\* A list's first trigger, were a list without one given its first node.
FindTrigger_OrFirst(nodes) ==
    IF \E i \in 1 .. Len(nodes) : nodes[i].type = "trigger"
    THEN CHOOSE i \in 1 .. Len(nodes) :
            /\ nodes[i].type = "trigger"
            /\ \A j \in 1 .. (i - 1) : nodes[j].type # "trigger"
    ELSE IF Len(nodes) > 0 THEN 1 ELSE 0

\* A list's trigger, were the last one of the list taken.
FindTrigger_Last(nodes) ==
    IF \E i \in 1 .. Len(nodes) : nodes[i].type = "trigger"
    THEN CHOOSE i \in 1 .. Len(nodes) :
            /\ nodes[i].type = "trigger"
            /\ \A j \in (i + 1) .. Len(nodes) : nodes[j].type # "trigger"
    ELSE 0

\* next((node for node in workflow.nodes if node.type == NodeType.TRIGGER),
\* None): the position of the first trigger node, 0 for None.
FindTrigger(nodes) ==
    IF \E i \in 1 .. Len(nodes) : nodes[i].type = "trigger"
    THEN CHOOSE i \in 1 .. Len(nodes) :
            /\ nodes[i].type = "trigger"
            /\ \A j \in 1 .. (i - 1) : nodes[j].type # "trigger"
    ELSE 0

\* ---------------------------------------------------------- graph traversal

\* _build_execution_path: traverse(node_id) on the closure state
\* st = [path, visited]; traverse_connections is the loop over
\* node.connections.
RECURSIVE traverse(_, _, _), traverse_connections(_, _, _)

\* traverse, were the id appended before the test of visited.
traverse_AppendFirst(nodes, node_id, st) ==
    LET st1 == [path    |-> Append(st.path, node_id),
                visited |-> st.visited \cup {node_id}]
        node == FindNode(nodes, node_id)
    IN  IF node_id \in st.visited
        THEN [st EXCEPT !.path = Append(st.path, node_id)]
        ELSE IF node # 0
        THEN traverse_connections(nodes, nodes[node].connections, st1)
        ELSE st1

\* traverse, were only the first connection of a node followed.
traverse_FirstSuccessor(nodes, node_id, st) ==
    IF node_id \in st.visited
    THEN st
    ELSE LET st1 == [path    |-> Append(st.path, node_id),
                     visited |-> st.visited \cup {node_id}]
             node == FindNode(nodes, node_id)
         IN  IF node # 0 /\ nodes[node].connections # << >>
             THEN traverse(nodes, Head(nodes[node].connections), st1)
             ELSE st1

\* The loop over node.connections, were it to run from the last to the first.
RECURSIVE traverse_connections_Reversed(_, _, _)
traverse_connections_Reversed(nodes, connections, st) ==
    IF connections = << >>
    THEN st
    ELSE traverse_connections_Reversed(
            nodes, SubSeq(connections, 1, Len(connections) - 1),
            traverse(nodes, connections[Len(connections)], st))

traverse(nodes, node_id, st) ==
    IF node_id \in st.visited
    THEN st
    ELSE LET st1 == [path    |-> Append(st.path, node_id),
                     visited |-> st.visited \cup {node_id}]
             node == FindNode(nodes, node_id)
         IN  IF node # 0
             THEN traverse_connections(nodes, nodes[node].connections, st1)
             ELSE st1

traverse_connections(nodes, connections, st) ==
    IF connections = << >>
    THEN st
    ELSE traverse_connections(nodes, Tail(connections),
                              traverse(nodes, Head(connections), st))

\* WorkflowExecutor._build_execution_path(nodes, start_node_id)
build_execution_path(nodes, start_node_id) ==
    traverse(nodes, start_node_id, [path |-> << >>, visited |-> {}]).path

\* ------------------------------------------------------------ node lists

\* The sequences over ids of length at most e.
ConnLists(ids, e) == UNION {[1 .. k -> ids] : k \in 0 .. e}

RECURSIVE EdgeCount(_)
EdgeCount(g) == IF g = << >> THEN 0 ELSE Len(Head(g)) + EdgeCount(Tail(g))

\* The lists of k connection lists over ids that hold at most e ids in all.
RECURSIVE Graphs(_, _, _)
Graphs(k, ids, e) ==
    IF k = 0
    THEN {<< >>}
    ELSE UNION {{Append(g, c) : c \in ConnLists(ids, e - EdgeCount(g))} :
                  g \in Graphs(k - 1, ids, e)}

\* WorkflowNode(id, type, name, config, position, connections); name and
\* position do not bear on execution.
WorkflowNode(id, type, config, connections) ==
    [id |-> id, type |-> type, config |-> config, connections |-> connections]

\* The configurations the handlers tell apart, as [type, config].
TriggerKind == [type |-> "trigger", config |-> [subtype |-> "webhook"]]

PlainKind == [type |-> "action", config |-> [subtype |-> "http"]]

NodeKinds ==
    {[type |-> "action", config |-> [action_type |-> a]] :
        a \in {"http_request", "data_transform"}}
    \cup {PlainKind}
    \cup {[type |-> "condition", config |-> [condition |-> "expr"]],
          [type |-> "ai_agent", config |-> [prompt |-> "template"]],
          [type |-> "transform", config |-> [prompt |-> "template"]],
          [type |-> "output", config |-> [subtype |-> "mattermost"]],
          [type |-> "output", config |-> [output_type |-> "webhook"]]}

\* Nodes 1..k with the edges g, every node a plain action.
Skeleton(g) ==
    [i \in 1 .. Len(g) |-> WorkflowNode(i, PlainKind.type, PlainKind.config, g[i])]

\* The node lists the traversal is checked on: nodes 1..k in list order,
\* every shape of edges within the bounds.
PathNodeLists ==
    UNION {{Skeleton(g) : g \in Graphs(k, NodeIds(MaxPathNodes), MaxPathEdges)} :
             k \in 0 .. MaxPathNodes}

\* The node lists a run is checked on, with the edges g and the triggers at
\* the positions T: a node the traversal from the first trigger reaches has
\* any kind; a node it does not reach is never read past its type, and is a
\* plain action.
NodeListsOn(g, T) ==
    LET n == Len(g)
        reached == IF T = {} THEN {}
                   ELSE {i \in (1 .. n) \ T :
                            \E j \in 1 .. Len(build_execution_path(Skeleton(g),
                                    CHOOSE t \in T : \A u \in T : t <= u)) :
                                build_execution_path(Skeleton(g),
                                    CHOOSE t \in T : \A u \in T : t <= u)[j] = i}
    IN  {[i \in 1 .. n |->
            IF i \in T
            THEN WorkflowNode(i, TriggerKind.type, TriggerKind.config, g[i])
            ELSE IF i \in reached
            THEN WorkflowNode(i, k[i].type, k[i].config, g[i])
            ELSE WorkflowNode(i, PlainKind.type, PlainKind.config, g[i])] :
         k \in [reached -> NodeKinds]}

NodeLists(maxNodes, maxEdges) ==
    UNION {UNION {UNION {NodeListsOn(g, T) : T \in SUBSET (1 .. n)} :
                    g \in Graphs(n, NodeIds(maxNodes), maxEdges)} :
             n \in 0 .. maxNodes}

\* ---------------------------------------------------------------- payload

\* Payloads, by the keys the handlers give them. by is the node that built
\* the value (0: the caller), original_data the payload it wraps, if any.
Payload(keys, by, original_data) ==
    [keys |-> keys, by |-> by, original_data |-> original_data]

\* trigger_data, as the callers build it.
TriggerData == Payload({"source"}, 0, << >>)

\* What a handler does: return a value or raise an Exception with message e.
Return(value) == [raised |-> FALSE, value |-> value, e |-> ""]

Raise(value, e) == [raised |-> TRUE, value |-> value, e |-> e]

\* config.get(key, default)
ConfigGet(config, key, default) ==
    IF key \in DOMAIN config THEN config[key] ELSE default

\* ---------------------------------------------------------- node handlers
\* A handler's external call (AI capability, HTTP request, eval of a script,
\* post to the channel) ends in one of the outcomes below; the handler is a
\* function of the node, the payload and that outcome.

\* The outcomes of the external call a node's handler makes; "none": it
\* makes no call.
ExternalOutcomes(node, channel_id) ==
    IF node.type = "ai_agent" THEN {"ok", "raises"}
    ELSE IF node.type = "action"
    THEN IF ConfigGet(node.config, "action_type", "None")
                \in {"http_request", "data_transform"}
         THEN {"ok", "raises"}
         ELSE {"none"}
    ELSE IF node.type = "condition" THEN {"true", "false", "raises"}
    ELSE IF node.type = "transform" THEN {"json", "text", "raises"}
    ELSE IF node.type = "output"
    THEN IF /\ ConfigGet(node.config, "output_type", "mattermost") = "mattermost"
            /\ channel_id # "None"
         THEN {"format_raises", "posted", "rejected", "raises"}
         ELSE IF ConfigGet(node.config, "output_type", "mattermost") = "webhook"
         THEN {"ok", "raises"}
         ELSE {"none"}
    ELSE {"none"}

\* _execute_ai_agent_node, were a failure of agent.run made a payload.
execute_ai_agent_node_Guarded(node, data, outcome) ==
    IF outcome = "raises"
    THEN Return(Payload({"error"}, node.id, << >>))
    ELSE Return(Payload({"ai_result", "original_data"}, node.id, <<data>>))

\* WorkflowExecutor._execute_ai_agent_node: agent.run returns or raises.
execute_ai_agent_node(node, data, outcome) ==
    IF outcome = "raises"
    THEN Raise(data, "agent.run failed")
    ELSE Return(Payload({"ai_result", "original_data"}, node.id, <<data>>))

\* _execute_action_node, were its calls not inside try/except.
execute_action_node_Unguarded(node, data, outcome) ==
    LET action_type == ConfigGet(node.config, "action_type", "None")
    IN  IF action_type \in {"http_request", "data_transform"}
        THEN IF outcome = "raises"
             THEN Raise(data, "action failed")
             ELSE Return(Payload({"result"}, node.id, << >>))
        ELSE Return(data)

\* _execute_action_node, were an unknown action_type to wrap the payload.
execute_action_node_Wraps(node, data, outcome) ==
    LET action_type == ConfigGet(node.config, "action_type", "None")
    IN  IF action_type = "http_request"
        THEN IF outcome = "raises"
             THEN Return(Payload({"error"}, node.id, << >>))
             ELSE Return(Payload({"http_result", "status_code"}, node.id, << >>))
        ELSE IF action_type = "data_transform"
        THEN IF outcome = "raises"
             THEN Return(Payload({"error"}, node.id, << >>))
             ELSE Return(Payload({"result"}, node.id, << >>))
        ELSE Return(Payload({"result", "original_data"}, node.id, <<data>>))

\* WorkflowExecutor._execute_action_node
execute_action_node(node, data, outcome) ==
    LET action_type == ConfigGet(node.config, "action_type", "None")
    IN  IF action_type = "http_request"
        THEN IF outcome = "raises"
             THEN Return(Payload({"error"}, node.id, << >>))
             ELSE Return(Payload({"http_result", "status_code"}, node.id, << >>))
        ELSE IF action_type = "data_transform"
        THEN IF outcome = "raises"
             THEN Return(Payload({"error"}, node.id, << >>))
             ELSE Return(Payload({"result"}, node.id, << >>))
        ELSE Return(data)

\* _execute_condition_node, were its eval not inside try/except.
execute_condition_node_Unguarded(node, data, outcome) ==
    IF outcome = "raises"
    THEN Raise(FALSE, "condition failed")
    ELSE Return(outcome = "true")

\* WorkflowExecutor._execute_condition_node
execute_condition_node(node, data, outcome) ==
    IF outcome = "raises" THEN Return(FALSE) ELSE Return(outcome = "true")

\* WorkflowExecutor._execute_transform_node: chain.run raises, or its text
\* parses as JSON, or it does not.
execute_transform_node(node, data, outcome) ==
    IF outcome = "raises"
    THEN Raise(data, "chain.run failed")
    ELSE IF outcome = "json"
    THEN Return(Payload({"parsed_result"}, node.id, << >>))
    ELSE Return(Payload({"transformed_data", "original_data"}, node.id, <<data>>))

\* MattermostTool._send_message: what it returns.
send_message(outcome) ==
    IF outcome = "posted" THEN "Message sent successfully"
    ELSE IF outcome = "rejected" THEN "Failed to send message"
    ELSE "Error sending message"

\* _execute_output_node, were a post the channel did not take to raise.
execute_output_node_Escalates(node, data, channel_id, outcome) ==
    LET output_type == ConfigGet(node.config, "output_type", "mattermost")
    IN  IF output_type = "mattermost" /\ channel_id # "None"
        THEN IF outcome = "format_raises"
             THEN Raise("", "message.format failed")
             ELSE IF outcome = "posted"
             THEN Return(send_message(outcome))
             ELSE Raise("", send_message(outcome))
        ELSE IF output_type = "webhook"
        THEN IF outcome = "raises"
             THEN Raise("", "session.post failed")
             ELSE Return("webhook posted")
        ELSE Return("")

\* WorkflowExecutor._execute_output_node; the value is what the post to the
\* channel or the webhook came to ("" for neither).
execute_output_node(node, data, channel_id, outcome) ==
    LET output_type == ConfigGet(node.config, "output_type", "mattermost")
    IN  IF output_type = "mattermost" /\ channel_id # "None"
        THEN IF outcome = "format_raises"
             THEN Raise("", "message.format failed")
             ELSE Return(send_message(outcome))
        ELSE IF output_type = "webhook"
        THEN IF outcome = "raises"
             THEN Raise("", "session.post failed")
             ELSE Return("webhook posted")
        ELSE Return("")

\* ------------------------------------------------------------------ state

\* The call sites of execute_workflow in app.py.
Callers == {"execute_workflow_endpoint", "webhook_trigger"}

\* The channel ids a caller may pass; "None" is Python's None.
ChannelIds(c) ==
    IF c = "webhook_trigger" THEN {"None"} ELSE {"None", "town-square"}

\* str(uuid.uuid4()): the ids are 1 .. MaxExecutions.
ExecutionIds == 1 .. MaxExecutions

VARIABLES
    workflow,           \* the stored Workflow: id, nodes, status
    active_executions,  \* WorkflowExecutor.active_executions
    task,               \* per caller: its call of execute_workflow, with
                        \* the status of the Workflow object it was given
    reply,              \* the last answer of the status command
    call                \* a call of _build_execution_path alone

vars == <<workflow, active_executions, task, reply, call>>

\* A caller that is not inside execute_workflow.
IdleTask ==
    [pc             |-> "idle",
     workflow_status |-> "",
     execution_id   |-> 0,
     channel_id     |-> "None",
     current_data   |-> TriggerData,
     execution_path |-> << >>,
     position       |-> 0,
     e              |-> "",
     log            |-> << >>,
     posts          |-> << >>]

NoCall == [start_node_id |-> 0, returned |-> FALSE, path |-> << >>]

\* No status command was answered yet.
NoReply ==
    [execution_id |-> 0, found |-> FALSE, status |-> "", started_at |-> "",
     workflow_id |-> "", completed_at |-> << >>, error |-> << >>]

\* d[key] = value on a dict
DictSet(d, key, value) ==
    [k \in (DOMAIN d) \cup {key} |-> IF k = key THEN value ELSE d[k]]

\* An id that is the same for every call.
uuid4_Fixed(used) == CHOOSE id \in ExecutionIds : \A j \in ExecutionIds : id <= j

\* uuid.uuid4(): an id no call has drawn.
uuid4(used) == CHOOSE id \in ExecutionIds \ used : \A j \in ExecutionIds \ used : id <= j

\* ------------------------------------------------------- execute_workflow

Nodes == workflow.nodes

\* The node the loop of execute_workflow is at: its position in the node
\* list, 0 when the id names none.
CurrentNode(t) ==
    IF t.pc = "for" /\ t.position \in 1 .. Len(t.execution_path)
    THEN FindNode(Nodes, t.execution_path[t.position])
    ELSE 0

AtNode(c, type) ==
    /\ task[c].pc = "for"
    /\ CurrentNode(task[c]) # 0
    /\ Nodes[CurrentNode(task[c])].type = type

\* A message handed to the notifier, and what came of the post.
Post(kind, outcome) == [kind |-> kind, outcome |-> outcome]

LogEntry(node, data, outcome, raised) ==
    [node |-> node.id, type |-> node.type, data |-> data,
     outcome |-> outcome, raised |-> raised]

\* The loop, were it to stay at the id it is at while ids are left.
Continue_Repeats(t) ==
    IF t.position < Len(t.execution_path) /\ Len(t.log) < Len(t.execution_path)
    THEN t
    ELSE [t EXCEPT !.position = t.position + 1, !.pc = "mark_completed"]

\* The loop goes on to the next id of the path, or ends.
Continue(t) ==
    IF t.position < Len(t.execution_path)
    THEN [t EXCEPT !.position = t.position + 1]
    ELSE [t EXCEPT !.position = t.position + 1, !.pc = "mark_completed"]

\* The loop, were a false condition not to end it.
Break_Continue(t) == Continue(t)

\* break
Break(t) == [t EXCEPT !.pc = "mark_completed"]

\* An exception, were there no except clause to mark the record.
Except_Unmarked(t, e) == [t EXCEPT !.pc = "raised", !.e = e]

\* An exception reaches the except clause of execute_workflow.
Except(t, e) == [t EXCEPT !.pc = "mark_error", !.e = e]

\* The start of a call, were it to keep only the records of the runs in
\* flight.
Call_Reset(c) ==
    /\ task[c].pc = "idle"
    /\ Cardinality(DOMAIN active_executions) < MaxExecutions
    /\ \E channel_id \in ChannelIds(c) :
         LET execution_id == uuid4(DOMAIN active_executions)
             inFlight == {task[d].execution_id : d \in Callers}
                            \cap DOMAIN active_executions
         IN  /\ active_executions' =
                    DictSet([id \in inFlight |-> active_executions[id]],
                            execution_id,
                            [workflow_id |-> workflow.id,
                             status      |-> "running",
                             started_at  |-> "utcnow",
                             channel_id  |-> channel_id])
             /\ task' = [task EXCEPT ![c] =
                    [IdleTask EXCEPT !.pc = "try",
                                     !.workflow_status = workflow.status,
                                     !.execution_id = execution_id,
                                     !.channel_id = channel_id]]
    /\ UNCHANGED <<workflow, reply, call>>

\* execute_workflow, lines 392-405: the id, the callback handler, the record.
Call(c) ==
    /\ task[c].pc = "idle"
    /\ Cardinality(DOMAIN active_executions) < MaxExecutions
    /\ \E channel_id \in ChannelIds(c) :
         LET execution_id == uuid4(DOMAIN active_executions)
         IN  /\ active_executions' =
                    DictSet(active_executions, execution_id,
                            [workflow_id |-> workflow.id,
                             status      |-> "running",
                             started_at  |-> "utcnow",
                             channel_id  |-> channel_id])
             /\ task' = [task EXCEPT ![c] =
                    [IdleTask EXCEPT !.pc = "try",
                                     !.workflow_status = workflow.status,
                                     !.execution_id = execution_id,
                                     !.channel_id = channel_id]]
    /\ UNCHANGED <<workflow, reply, call>>

\* The start of the try body, were the path every node of the list from
\* the trigger node on.
ResolveTrigger_AllNodes(c) ==
    /\ task[c].pc = "try"
    /\ LET trigger_node == FindTrigger(Nodes)
       IN  IF trigger_node = 0
           THEN task' = [task EXCEPT ![c] =
                    Except(task[c], "No trigger node found in workflow")]
           ELSE task' = [task EXCEPT ![c] =
                    [task[c] EXCEPT
                        !.pc = "for",
                        !.current_data = TriggerData,
                        !.execution_path =
                            [i \in 1 .. (Len(Nodes) - trigger_node + 1) |->
                                Nodes[trigger_node + i - 1].id],
                        !.position = 1]]
    /\ UNCHANGED <<workflow, active_executions, reply, call>>

\* The start of the try body, were it to refuse a workflow that is not
\* active.
ResolveTrigger_ActiveOnly(c) ==
    /\ task[c].pc = "try"
    /\ LET trigger_node == FindTrigger(Nodes)
       IN  IF task[c].workflow_status # "active"
           THEN task' = [task EXCEPT ![c] =
                    Except(task[c], "Workflow is not active")]
           ELSE IF trigger_node = 0
           THEN task' = [task EXCEPT ![c] =
                    Except(task[c], "No trigger node found in workflow")]
           ELSE task' = [task EXCEPT ![c] =
                    [task[c] EXCEPT
                        !.pc = "for",
                        !.current_data = TriggerData,
                        !.execution_path =
                            build_execution_path(Nodes, Nodes[trigger_node].id),
                        !.position = 1]]
    /\ UNCHANGED <<workflow, active_executions, reply, call>>

\* lines 407-415: the trigger node, the payload, the path.
ResolveTrigger(c) ==
    /\ task[c].pc = "try"
    /\ LET trigger_node == FindTrigger(Nodes)
       IN  IF trigger_node = 0
           THEN task' = [task EXCEPT ![c] =
                    Except(task[c], "No trigger node found in workflow")]
           ELSE task' = [task EXCEPT ![c] =
                    [task[c] EXCEPT
                        !.pc = "for",
                        !.current_data = TriggerData,
                        !.execution_path =
                            build_execution_path(Nodes, Nodes[trigger_node].id),
                        !.position = 1]]
    /\ UNCHANGED <<workflow, active_executions, reply, call>>

\* The loop, were it never to get past an id that names no node.
SkipMissingNode_Spins(c) ==
    /\ task[c].pc = "for"
    /\ CurrentNode(task[c]) = 0
    /\ UNCHANGED <<task, workflow, active_executions, reply, call>>

\* The loop, were an id that names no node to end it.
SkipMissingNode_Breaks(c) ==
    /\ task[c].pc = "for"
    /\ CurrentNode(task[c]) = 0
    /\ task' = [task EXCEPT ![c] = Break(task[c])]
    /\ UNCHANGED <<workflow, active_executions, reply, call>>

\* lines 418-420: the id names no node.
SkipMissingNode(c) ==
    /\ task[c].pc = "for"
    /\ CurrentNode(task[c]) = 0
    /\ task' = [task EXCEPT ![c] = Continue(task[c])]
    /\ UNCHANGED <<workflow, active_executions, reply, call>>

\* lines 422-435 for a trigger node: no branch takes it.
ExecuteTriggerNode(c) ==
    /\ AtNode(c, "trigger")
    /\ LET t == task[c]
           node == Nodes[CurrentNode(t)]
       IN  task' = [task EXCEPT ![c] =
                Continue([t EXCEPT !.log =
                    Append(t.log, LogEntry(node, t.current_data, "none", FALSE))])]
    /\ UNCHANGED <<workflow, active_executions, reply, call>>

\* The loop, were a handler's value not kept for the nodes after it.
Threaded_Forked(t, node, outcome, r) ==
    LET logged == [t EXCEPT !.log =
                      Append(t.log, LogEntry(node, t.current_data, outcome, r.raised))]
    IN  IF r.raised
        THEN Except(logged, r.e)
        ELSE Continue(logged)

\* What a handler's result does to the run when its value is the next payload.
Threaded(t, node, outcome, r) ==
    LET logged == [t EXCEPT !.log =
                      Append(t.log, LogEntry(node, t.current_data, outcome, r.raised))]
    IN  IF r.raised
        THEN Except(logged, r.e)
        ELSE Continue([logged EXCEPT !.current_data = r.value])

\* lines 424-425
ExecuteAIAgentNode(c) ==
    /\ AtNode(c, "ai_agent")
    /\ LET t == task[c]
           node == Nodes[CurrentNode(t)]
       IN  \E outcome \in ExternalOutcomes(node, t.channel_id) :
              task' = [task EXCEPT ![c] =
                  Threaded(t, node, outcome,
                           execute_ai_agent_node(node, t.current_data, outcome))]
    /\ UNCHANGED <<workflow, active_executions, reply, call>>

\* lines 426-427
ExecuteActionNode(c) ==
    /\ AtNode(c, "action")
    /\ LET t == task[c]
           node == Nodes[CurrentNode(t)]
       IN  \E outcome \in ExternalOutcomes(node, t.channel_id) :
              task' = [task EXCEPT ![c] =
                  Threaded(t, node, outcome,
                           execute_action_node(node, t.current_data, outcome))]
    /\ UNCHANGED <<workflow, active_executions, reply, call>>

\* lines 428-431
ExecuteConditionNode(c) ==
    /\ AtNode(c, "condition")
    /\ LET t == task[c]
           node == Nodes[CurrentNode(t)]
       IN  \E outcome \in ExternalOutcomes(node, t.channel_id) :
              LET should_continue ==
                      execute_condition_node(node, t.current_data, outcome)
                  logged == [t EXCEPT !.log =
                      Append(t.log, LogEntry(node, t.current_data, outcome,
                                             should_continue.raised))]
              IN  task' = [task EXCEPT ![c] =
                      IF should_continue.raised
                      THEN Except(logged, should_continue.e)
                      ELSE IF ~should_continue.value
                      THEN Break(logged)
                      ELSE Continue(logged)]
    /\ UNCHANGED <<workflow, active_executions, reply, call>>

\* lines 432-433
ExecuteTransformNode(c) ==
    /\ AtNode(c, "transform")
    /\ LET t == task[c]
           node == Nodes[CurrentNode(t)]
       IN  \E outcome \in ExternalOutcomes(node, t.channel_id) :
              task' = [task EXCEPT ![c] =
                  Threaded(t, node, outcome,
                           execute_transform_node(node, t.current_data, outcome))]
    /\ UNCHANGED <<workflow, active_executions, reply, call>>

\* lines 434-435: the handler's value is dropped.
ExecuteOutputNode(c) ==
    /\ AtNode(c, "output")
    /\ LET t == task[c]
           node == Nodes[CurrentNode(t)]
       IN  \E outcome \in ExternalOutcomes(node, t.channel_id) :
              LET r == execute_output_node(node, t.current_data, t.channel_id, outcome)
                  logged == [t EXCEPT
                      !.log = Append(t.log,
                                LogEntry(node, t.current_data, outcome, r.raised)),
                      !.posts = IF r.raised \/ r.value = ""
                                THEN t.posts
                                ELSE Append(t.posts, Post("output", outcome))]
              IN  task' = [task EXCEPT ![c] =
                      IF r.raised THEN Except(logged, r.e) ELSE Continue(logged)]
    /\ UNCHANGED <<workflow, active_executions, reply, call>>

\* active_executions[execution_id][key] = value
SetField(execution_id, key, value) ==
    [active_executions EXCEPT ![execution_id] = DictSet(@, key, value)]

\* The end of the try body, were it to save the workflow as completed.
MarkCompleted_SavesWorkflow(c) ==
    /\ task[c].pc = "mark_completed"
    /\ active_executions' = SetField(task[c].execution_id, "status", "completed")
    /\ workflow' = [workflow EXCEPT !.status = "completed"]
    /\ task' = [task EXCEPT ![c].pc = "set_completed_at"]
    /\ UNCHANGED <<reply, call>>

\* line 438
MarkCompleted(c) ==
    /\ task[c].pc = "mark_completed"
    /\ active_executions' = SetField(task[c].execution_id, "status", "completed")
    /\ task' = [task EXCEPT ![c].pc = "set_completed_at"]
    /\ UNCHANGED <<workflow, reply, call>>

\* lines 439-441: the timestamp, and the id is returned.
SetCompletedAt(c) ==
    /\ task[c].pc = "set_completed_at"
    /\ active_executions' = SetField(task[c].execution_id, "completed_at", "utcnow")
    /\ task' = [task EXCEPT ![c].pc = "returned"]
    /\ UNCHANGED <<workflow, reply, call>>

\* The except clause, were it to write a status of its own.
MarkError_Failed(c) ==
    /\ task[c].pc = "mark_error"
    /\ active_executions' = [active_executions EXCEPT
            ![task[c].execution_id] = DictSet(@, "status", "failed")]
    /\ task' = [task EXCEPT ![c].pc = "set_error"]
    /\ UNCHANGED <<workflow, reply, call>>

\* lines 443-445
MarkError(c) ==
    /\ task[c].pc = "mark_error"
    /\ active_executions' = SetField(task[c].execution_id, "status", "error")
    /\ task' = [task EXCEPT ![c].pc = "set_error"]
    /\ UNCHANGED <<workflow, reply, call>>

\* line 446; without a callback handler the exception is raised again (451).
SetError(c) ==
    /\ task[c].pc = "set_error"
    /\ active_executions' = SetField(task[c].execution_id, "error", task[c].e)
    /\ task' = [task EXCEPT ![c].pc =
            IF task[c].channel_id # "None" THEN "notify" ELSE "raised"]
    /\ UNCHANGED <<workflow, reply, call>>

\* The notification, were a failure of its post to take the place of the
\* exception being handled.
NotifyFailure_Escapes(c) ==
    /\ task[c].pc = "notify"
    /\ \E outcome \in {"posted", "rejected", "raises"} :
          task' = [task EXCEPT ![c] =
              [task[c] EXCEPT !.pc = "raised",
                              !.e = IF outcome = "raises"
                                    THEN "Error sending message" ELSE @,
                              !.posts = Append(@, Post("failure", outcome))]]
    /\ UNCHANGED <<workflow, active_executions, reply, call>>

\* lines 448-451: MattermostCallbackHandler.send_message logs its own
\* failures; then the exception is raised again.
NotifyFailure(c) ==
    /\ task[c].pc = "notify"
    /\ \E outcome \in {"posted", "rejected", "raises"} :
          task' = [task EXCEPT ![c] =
              [task[c] EXCEPT !.pc = "raised",
                              !.posts = Append(@, Post("failure", outcome))]]
    /\ UNCHANGED <<workflow, active_executions, reply, call>>

\* execute_workflow_endpoint, webhook_trigger: the response to the request,
\* after execute_workflow returned or raised.
Respond(c) ==
    /\ task[c].pc \in {"returned", "raised"}
    /\ task' = [task EXCEPT ![c] = IdleTask]
    /\ UNCHANGED <<workflow, active_executions, reply, call>>

\* WorkflowBotCommands._workflow_status with an execution id: what the
\* answer shows of the record.
workflow_status(execution_id) ==
    IF execution_id \in DOMAIN active_executions
    THEN LET execution == active_executions[execution_id]
             status == execution["status"]
         IN  [execution_id |-> execution_id,
              found        |-> TRUE,
              status       |-> status,
              started_at   |-> execution["started_at"],
              workflow_id  |-> execution["workflow_id"],
              completed_at |-> IF status = "completed"
                                  /\ "completed_at" \in DOMAIN execution
                               THEN <<execution["completed_at"]>> ELSE << >>,
              error        |-> IF status = "error" /\ "error" \in DOMAIN execution
                               THEN <<execution["error"]>> ELSE << >>]
    ELSE [NoReply EXCEPT !.execution_id = execution_id]

\* The active executions, were the records that are running counted.
health_RunningOnly ==
    Cardinality({id \in DOMAIN active_executions :
                    active_executions[id]["status"] = "running"})

\* health(): 'active_executions': len(workflow_executor.active_executions)
health == Cardinality(DOMAIN active_executions)

\* _workflow_status without arguments: "Active executions: {len(...)}"
system_status == Cardinality(DOMAIN active_executions)

\* The status command, from another thread than the runs.
StatusCommand ==
    /\ \E execution_id \in ExecutionIds :
          reply' = workflow_status(execution_id)
    /\ UNCHANGED <<workflow, active_executions, task, call>>

\* One call of execute_workflow, from the call to its return or raise.
Run(c) ==
    \/ Call(c)
    \/ ResolveTrigger(c)
    \/ SkipMissingNode(c)
    \/ ExecuteTriggerNode(c)
    \/ ExecuteAIAgentNode(c)
    \/ ExecuteActionNode(c)
    \/ ExecuteConditionNode(c)
    \/ ExecuteTransformNode(c)
    \/ ExecuteOutputNode(c)
    \/ MarkCompleted(c)
    \/ SetCompletedAt(c)
    \/ MarkError(c)
    \/ SetError(c)
    \/ NotifyFailure(c)

Step(c) == Run(c) \/ Respond(c)

\* ------------------------------------------------------- specifications

InitOn(nodeLists) ==
    /\ workflow \in {[id |-> "wf", nodes |-> n, status |-> "active"] : n \in nodeLists}
    /\ active_executions = << >>
    /\ task = [c \in Callers |-> IdleTask]
    /\ reply = NoReply
    /\ call = NoCall

\* Concurrent calls from both call sites on one workflow.
Init == InitOn(NodeLists(MaxSharedNodes, MaxSharedEdges))

Next == StatusCommand \/ \E c \in Callers : Step(c)

Spec == Init /\ [][Next]_vars

\* One call of execute_workflow.
RunInit == InitOn(NodeLists(MaxNodes, MaxEdges))

RunNext == Run("execute_workflow_endpoint")

SpecRun == RunInit /\ [][RunNext]_vars

\* One call of execute_workflow that always takes its next step: the
\* coroutine is scheduled, and every external call it awaits returns or
\* fails.
SpecRunFair == SpecRun /\ WF_vars(RunNext)

\* ------------------------------------- two runs under changing status

\* update_workflow with a body that names a status only.
update_workflow ==
    /\ \E status \in WorkflowStatus \ {workflow.status} :
          workflow' = [workflow EXCEPT !.status = status]
    /\ UNCHANGED <<active_executions, task, reply, call>>

StatusInit ==
    /\ workflow \in {[id |-> "wf", nodes |-> n, status |-> s] :
                        n \in NodeLists(MaxSharedNodes, MaxSharedEdges),
                        s \in WorkflowStatus}
    /\ active_executions = << >>
    /\ task = [c \in Callers |-> IdleTask]
    /\ reply = NoReply
    /\ call = NoCall

\* A request to execute_workflow_endpoint, and after its call ended a request
\* to webhook_trigger, while the status of the workflow is updated at will.
LaterRun ==
    /\ task["execute_workflow_endpoint"].pc \in {"returned", "raised"}
    /\ Run("webhook_trigger")

StatusNext ==
    \/ update_workflow
    \/ Run("execute_workflow_endpoint")
    \/ LaterRun

SpecStatus == StatusInit /\ [][StatusNext]_vars

\* ---------------------------------------------- specification of traversal

PathInit ==
    /\ workflow \in {[id |-> "wf", nodes |-> n, status |-> "draft"] : n \in PathNodeLists}
    /\ \E s \in NodeIds(MaxPathNodes) :
          call = [start_node_id |-> s, returned |-> FALSE, path |-> << >>]
    /\ active_executions = << >>
    /\ task = [c \in Callers |-> IdleTask]
    /\ reply = NoReply

BuildPath ==
    /\ call.start_node_id # 0
    /\ ~call.returned
    /\ call' = [call EXCEPT !.returned = TRUE,
                            !.path = build_execution_path(workflow.nodes,
                                                          call.start_node_id)]
    /\ UNCHANGED <<workflow, active_executions, task, reply>>

PathNext == BuildPath

SpecPath == PathInit /\ [][PathNext]_vars

\* ------------------------------------------------------------- properties

\* The calls that drew an execution id.
Called == {c \in Callers : task[c].execution_id # 0}

\* The record of caller c's run.
RecordOf(c) == active_executions[task[c].execution_id]

Range(f) == {f[i] : i \in DOMAIN f}

\* The ids the log of a run names, in order.
Dispatched(t) == [k \in 1 .. Len(t.log) |-> t.log[k].node]

\* The ids of a path that name a node of the list, in path order.
RECURSIVE Existing(_, _)
Existing(nodes, path) ==
    IF path = << >> THEN << >>
    ELSE IF FindNode(nodes, Head(path)) # 0
    THEN <<Head(path)>> \o Existing(nodes, Tail(path))
    ELSE Existing(nodes, Tail(path))

\* The ids reached from the ids of frontier along the connections of the
\* nodes of the list, never going into or through an id of seen.
RECURSIVE ReachFrom(_, _, _)
ReachFrom(nodes, frontier, seen) ==
    LET new == frontier \ seen
    IN  IF new = {} THEN seen
        ELSE ReachFrom(nodes,
                       UNION {Range(nodes[FindNode(nodes, x)].connections) :
                                x \in {y \in new : FindNode(nodes, y) # 0}},
                       seen \cup new)

\* The ids reachable from id from (it included) without touching avoid.
Reachable(nodes, from, avoid) == ReachFrom(nodes, {from}, avoid) \ avoid

\* The nodes of the workflow reachable from its first trigger only through
\* the node x.
OnlyThrough(x) ==
    LET start == Nodes[FindTrigger(Nodes)].id
    IN  {m \in Reachable(Nodes, start, {}) \ {x} :
            /\ FindNode(Nodes, m) # 0
            /\ m \notin Reachable(Nodes, start, {x})}

HasNoTrigger == \A i \in 1 .. Len(Nodes) : Nodes[i].type # "trigger"

\* A log entry after which the loop ends early: the handler raised, or a
\* condition came out false.
Stops(entry) ==
    \/ entry.raised
    \/ entry.type = "condition" /\ entry.outcome # "true"

\* C1: on a workflow without a trigger node, execute_workflow dispatches no
\* node, never returns an id, and when it raises the record has status error
\* and a non-empty error message.
C1_NoTriggerRaises ==
    HasNoTrigger =>
        \A c \in Called :
            /\ task[c].log = << >>
            /\ task[c].pc \in {"try", "mark_error", "set_error", "notify", "raised"}
            /\ task[c].pc = "raised" =>
                  /\ RecordOf(c)["status"] = "error"
                  /\ "error" \in DOMAIN RecordOf(c)
                  /\ RecordOf(c)["error"] # ""

C1_Witness ==
    /\ HasNoTrigger
    /\ Len(Nodes) = MaxNodes
    /\ \E c \in Called : task[c].pc = "raised"

\* C2: once a condition node came out false, the run dispatches nothing
\* more (it goes to completion), and no node reachable from the trigger only
\* through that condition node is dispatched in the run.
C2_FalseConditionHalts ==
    \A c \in Called :
        \A k \in 1 .. Len(task[c].log) :
            LET entry == task[c].log[k]
            IN  entry.type = "condition" /\ entry.outcome = "false" =>
                    /\ k = Len(task[c].log)
                    /\ task[c].pc \in {"mark_completed", "set_completed_at", "returned"}
                    /\ \A m \in OnlyThrough(entry.node) :
                            m \notin Range(Dispatched(task[c]))

\* Trigger -> Condition(false) -> Output has returned.
C2_Witness ==
    \E c \in Called :
        /\ task[c].pc = "returned"
        /\ \E k \in 1 .. Len(task[c].log) :
              /\ task[c].log[k].type = "condition"
              /\ task[c].log[k].outcome = "false"
              /\ \E m \in OnlyThrough(task[c].log[k].node) :
                    Nodes[FindNode(Nodes, m)].type = "output"

\* The payload a run holds after its k-th log entry.
DataAfter(t, k) == IF k < Len(t.log) THEN t.log[k + 1].data ELSE t.current_data

FailedAction(entry) ==
    /\ entry.type = "action"
    /\ entry.outcome = "raises"

\* C3: a failed http_request or data_transform action does not raise: the
\* payload after it is a mapping with the key error, the run goes on from
\* it as from any node, and when no later node raises or halts the run,
\* every node of the path is dispatched and the record ends completed.
C3_ActionFailureIsData ==
    \A c \in Called :
        \A k \in 1 .. Len(task[c].log) :
            LET t == task[c]
            IN  FailedAction(t.log[k]) =>
                    /\ ~t.log[k].raised
                    /\ "error" \in DataAfter(t, k).keys
                    /\ k = Len(t.log) =>
                          t.pc \in {"for", "mark_completed", "set_completed_at",
                                    "returned"}
                    /\ (/\ t.pc \in {"returned", "raised"}
                        /\ \A j \in (k + 1) .. Len(t.log) : ~Stops(t.log[j])) =>
                          /\ t.pc = "returned"
                          /\ RecordOf(c)["status"] = "completed"
                          /\ Dispatched(t) = Existing(Nodes, t.execution_path)

\* A failed action was followed by an output node, which got the error
\* payload, and the run returned.
C3_Witness ==
    \E c \in Called :
        /\ task[c].pc = "returned"
        /\ \E k \in 1 .. (Len(task[c].log) - 1) :
              /\ FailedAction(task[c].log[k])
              /\ task[c].log[k + 1].type = "output"
              /\ task[c].log[k + 1].data.keys = {"error"}

\* The status the record of a run should show while the run is at pc.
StatusAt(pc) ==
    IF pc \in {"try", "for", "mark_completed", "mark_error"} THEN "running"
    ELSE IF pc \in {"set_completed_at", "returned"} THEN "completed"
    ELSE "error"

\* C4: concurrent calls hold distinct execution ids, and each id has its own
\* record, whose status is running until that run itself marks it completed
\* or error, whatever the other run does.
C4_ConcurrentRunsIndependent ==
    /\ \A c1, c2 \in Called :
          c1 # c2 => task[c1].execution_id # task[c2].execution_id
    /\ \A c \in Called :
          /\ task[c].execution_id \in DOMAIN active_executions
          /\ RecordOf(c)["status"] = StatusAt(task[c].pc)

\* Two runs are in flight, one about to finish completed and one error.
C4_Witness ==
    \E c1, c2 \in Called :
        /\ task[c1].pc = "set_completed_at"
        /\ task[c2].pc = "set_error"

Terminal == {"completed", "error"}

\* C5: once a record has the status completed or error, no step changes any
\* field of it.
C5_TerminalRecordFrozen ==
    [][\A id \in DOMAIN active_executions :
          active_executions[id]["status"] \in Terminal =>
              active_executions'[id] = active_executions[id]]_vars

\* C5, as the status command sees it: once it showed a record as completed
\* or error, it shows the same for that id ever after.
C5_TerminalReplyFinal ==
    (reply.found /\ reply.status \in Terminal) =>
        workflow_status(reply.execution_id) = reply

\* C9: a record is created running, and its status only ever changes from
\* running to completed or from running to error.
C9_StatusTransitions ==
    [][\A id \in DOMAIN active_executions' :
          IF id \in DOMAIN active_executions
          THEN \/ active_executions'[id]["status"] = active_executions[id]["status"]
               \/ /\ active_executions[id]["status"] = "running"
                  /\ active_executions'[id]["status"] \in Terminal
          ELSE active_executions'[id]["status"] = "running"]_vars

\* One record ended completed and another error.
C9_Witness ==
    \E id1, id2 \in DOMAIN active_executions :
        /\ active_executions[id1]["status"] = "completed"
        /\ active_executions[id2]["status"] = "error"

\* C10: when execute_workflow has returned an id the record of that id is
\* completed, and when it has raised the record is error.
C10_OutcomeMatchesRecord ==
    \A c \in Called :
        /\ task[c].pc = "returned" => RecordOf(c)["status"] = "completed"
        /\ task[c].pc = "raised" => RecordOf(c)["status"] = "error"

\* One call has returned and the other has raised, before the endpoints
\* answered.
C10_Witness ==
    \E c1, c2 \in Called :
        /\ task[c1].pc = "returned"
        /\ task[c2].pc = "raised"

\* ------------------------------------------- properties of the traversal

\* The place of id x in a path, 0 when it is not in it.
Pos(path, x) ==
    IF \E i \in 1 .. Len(path) : path[i] = x
    THEN CHOOSE i \in 1 .. Len(path) :
            path[i] = x /\ \A j \in 1 .. (i - 1) : path[j] # x
    ELSE 0

Before(path, x, y) ==
    /\ Pos(path, x) # 0
    /\ Pos(path, y) # 0
    /\ Pos(path, x) < Pos(path, y)

\* The nodes of the list reachable from id x, x included.
ReachableNodes(nodes, x) ==
    {m \in Reachable(nodes, x, {}) : FindNode(nodes, m) # 0}

\* The list is A -> B -> A and the traversal starts at A.
TwoCycle ==
    /\ Len(Nodes) = 2
    /\ Nodes[1].connections = <<2>>
    /\ Nodes[2].connections = <<1>>
    /\ call.start_node_id = 1

\* C6: the path _build_execution_path returns names no id twice, and for
\* the cycle A -> B -> A started at A it is [A, B].
C6_PathHasNoRepeats ==
    call.returned =>
        /\ \A i, j \in 1 .. Len(call.path) : i # j => call.path[i] # call.path[j]
        /\ TwoCycle => call.path = <<1, 2>>

C6_Witness == call.returned /\ TwoCycle

\* C7: no id of the returned path after the start id names a node that is
\* not in the list.
C7_DanglingIdExcluded ==
    call.returned =>
        \A j \in 2 .. Len(call.path) : FindNode(Nodes, call.path[j]) # 0

\* C8 as claimed: the start id is first, and for a node N of the path with
\* two successors [S1, S2], S1 and every node reachable from S1 precede S2.
C8_StrictPreOrder ==
    call.returned =>
        /\ call.path[1] = call.start_node_id
        /\ \A n \in 1 .. Len(Nodes) :
              (Pos(call.path, Nodes[n].id) # 0 /\ Len(Nodes[n].connections) = 2) =>
                  LET S1 == Nodes[n].connections[1]
                      S2 == Nodes[n].connections[2]
                  IN  (/\ S1 # S2
                       /\ FindNode(Nodes, S1) # 0
                       /\ FindNode(Nodes, S2) # 0) =>
                          \A x \in ReachableNodes(Nodes, S1) :
                              Before(call.path, x, S2)

\* C8, amended: the start id is first, and for a node N of the path and a
\* successor S2 of N that comes after N in the path and is reachable from no
\* earlier successor of N, every earlier successor S1 of N in the list and
\* every node reachable from S1 precede S2.
C8_PreOrder ==
    call.returned =>
        /\ call.path[1] = call.start_node_id
        /\ \A n \in 1 .. Len(Nodes) :
              Pos(call.path, Nodes[n].id) # 0 =>
                  \A b \in 1 .. Len(Nodes[n].connections) :
                      LET S2 == Nodes[n].connections[b]
                          earlier == {Nodes[n].connections[a] : a \in 1 .. (b - 1)}
                      IN  (/\ FindNode(Nodes, S2) # 0
                           /\ Before(call.path, Nodes[n].id, S2)
                           /\ \A S1 \in earlier :
                                 S2 \notin Reachable(Nodes, S1, {})) =>
                              \A S1 \in earlier :
                                  \A x \in ReachableNodes(Nodes, S1) :
                                      Before(call.path, x, S2)

\* N = 1 has the successors [2, 3], node 2 leads on to node 1 only, and the
\* path is [1, 2, 3].
C8_Witness ==
    /\ call.returned
    /\ call.start_node_id = 1
    /\ Len(Nodes) = 3
    /\ Nodes[1].connections = <<2, 3>>
    /\ Nodes[2].connections # << >>
    /\ 3 \notin Reachable(Nodes, 2, {1})
    /\ call.path = <<1, 2, 3>>

\* ------------------------------------------------ properties of failures

\* What the handler of a log entry's node did with the entry's payload and
\* outcome: the payload the node left, or the exception it raised.
HandlerResult(t, entry) ==
    LET node == Nodes[FindNode(Nodes, entry.node)]
        kept == Return(entry.data)
    IN  IF entry.type = "ai_agent"
        THEN execute_ai_agent_node(node, entry.data, entry.outcome)
        ELSE IF entry.type = "action"
        THEN execute_action_node(node, entry.data, entry.outcome)
        ELSE IF entry.type = "transform"
        THEN execute_transform_node(node, entry.data, entry.outcome)
        ELSE IF entry.type = "condition"
        THEN IF execute_condition_node(node, entry.data, entry.outcome).raised
             THEN execute_condition_node(node, entry.data, entry.outcome)
             ELSE kept
        ELSE IF entry.type = "output"
        THEN IF execute_output_node(node, entry.data, t.channel_id,
                                    entry.outcome).raised
             THEN execute_output_node(node, entry.data, t.channel_id, entry.outcome)
             ELSE kept
        ELSE kept

\* The message of the failure that ended the run's dispatch.
FailureOf(t) ==
    IF t.log # << >> /\ t.log[Len(t.log)].raised
    THEN HandlerResult(t, t.log[Len(t.log)]).e
    ELSE "No trigger node found in workflow"

\* The failure notifications a run handed to the channel.
FailurePosts(t) == {k \in 1 .. Len(t.posts) : t.posts[k].kind = "failure"}

\* C11: on a failure the record is marked error with the failure's message
\* before anything is sent, one failure notification is sent when a channel
\* was supplied and none otherwise, and then the call raises that same
\* failure, whatever came of the notification, with the record as marked.
C11_FailureHandling ==
    \A c \in Called :
        LET t == task[c]
        IN  /\ t.pc \in {"mark_error", "set_error", "notify"} => FailurePosts(t) = {}
            /\ t.pc \in {"set_error", "notify", "raised"} =>
                  RecordOf(c)["status"] = "error"
            /\ t.pc \in {"notify", "raised"} =>
                  /\ "error" \in DOMAIN RecordOf(c)
                  /\ RecordOf(c)["error"] = FailureOf(t)
            /\ t.pc = "notify" => t.channel_id # "None"
            /\ t.pc = "raised" =>
                  /\ t.e = FailureOf(t)
                  /\ Cardinality(FailurePosts(t)) =
                        IF t.channel_id # "None" THEN 1 ELSE 0

\* A node raised in a run with a channel, the post of the notification
\* failed, and the call has raised.
C11_Witness ==
    \E c \in Called :
        /\ task[c].pc = "raised"
        /\ task[c].log # << >>
        /\ task[c].channel_id # "None"
        /\ \E k \in FailurePosts(task[c]) : task[c].posts[k].outcome = "raises"

\* C12: a transform node whose AI call fails does not raise: the payload
\* after it is a mapping with the key error and the run goes on from it as
\* from any node.
C12_TransformFailureIsData ==
    \A c \in Called :
        \A k \in 1 .. Len(task[c].log) :
            LET t == task[c]
            IN  (t.log[k].type = "transform" /\ t.log[k].outcome = "raises") =>
                    /\ ~t.log[k].raised
                    /\ "error" \in DataAfter(t, k).keys
                    /\ k = Len(t.log) =>
                          t.pc \in {"for", "mark_completed", "set_completed_at",
                                    "returned"}

\* The entry is an output node's post to the channel that failed in
\* transport or was answered with another status than 201.
PostFailed(t, entry) ==
    /\ entry.type = "output"
    /\ t.channel_id # "None"
    /\ ConfigGet(Nodes[FindNode(Nodes, entry.node)].config,
                 "output_type", "mattermost") = "mattermost"
    /\ entry.outcome \in {"rejected", "raises"}

\* C13: an output node whose post to the channel fails does not raise: the
\* run goes on from it with the payload it had, and when no later node
\* raises or halts the run, every node of the path is dispatched and the
\* record ends completed.
C13_PostFailureNotEscalated ==
    \A c \in Called :
        \A k \in 1 .. Len(task[c].log) :
            LET t == task[c]
            IN  PostFailed(t, t.log[k]) =>
                    /\ ~t.log[k].raised
                    /\ DataAfter(t, k) = t.log[k].data
                    /\ k = Len(t.log) =>
                          t.pc \in {"for", "mark_completed", "set_completed_at",
                                    "returned"}
                    /\ (/\ t.pc \in {"returned", "raised"}
                        /\ \A j \in (k + 1) .. Len(t.log) : ~Stops(t.log[j])) =>
                          /\ t.pc = "returned"
                          /\ RecordOf(c)["status"] = "completed"
                          /\ Dispatched(t) = Existing(Nodes, t.execution_path)

\* An output node's post failed in transport, a node after it was
\* dispatched, and the run returned.
C13_Witness ==
    \E c \in Called :
        /\ task[c].pc = "returned"
        /\ RecordOf(c)["status"] = "completed"
        /\ \E k \in 1 .. (Len(task[c].log) - 1) :
              /\ PostFailed(task[c], task[c].log[k])
              /\ task[c].log[k].outcome = "raises"

\* C14: a condition node whose evaluation raises ends the run as a false
\* one does: it is the last node dispatched, nothing is raised, and the call
\* returns with the record completed and without an error message.
C14_ConditionErrorHalts ==
    \A c \in Called :
        \A k \in 1 .. Len(task[c].log) :
            LET t == task[c]
                entry == t.log[k]
            IN  (entry.type = "condition" /\ entry.outcome = "raises") =>
                    /\ ~entry.raised
                    /\ execute_condition_node(Nodes[FindNode(Nodes, entry.node)],
                                              entry.data, "raises")
                         = execute_condition_node(Nodes[FindNode(Nodes, entry.node)],
                                                  entry.data, "false")
                    /\ k = Len(t.log)
                    /\ t.pc \in {"mark_completed", "set_completed_at", "returned"}
                    /\ \A m \in OnlyThrough(entry.node) : m \notin Range(Dispatched(t))
                    /\ t.pc = "returned" =>
                          /\ RecordOf(c)["status"] = "completed"
                          /\ "error" \notin DOMAIN RecordOf(c)

\* Trigger -> Condition(raises) -> some node has returned.
C14_Witness ==
    \E c \in Called :
        /\ task[c].pc = "returned"
        /\ \E k \in 1 .. Len(task[c].log) :
              /\ task[c].log[k].type = "condition"
              /\ task[c].log[k].outcome = "raises"
              /\ OnlyThrough(task[c].log[k].node) # {}

\* ------------------------------------------------ properties of the registry

\* C15: no step removes an execution id from the registry or changes the
\* workflow id, start time or channel id of a record, and a step that
\* changes a record is a step of the call that created it and of no other.
C15_RegistryAppendOnly ==
    [][/\ DOMAIN active_executions \subseteq DOMAIN active_executions'
       /\ \A id \in DOMAIN active_executions :
             /\ \A key \in {"workflow_id", "started_at", "channel_id"} :
                   active_executions'[id][key] = active_executions[id][key]
             /\ active_executions'[id] # active_executions[id] =>
                   \E c \in Callers :
                       /\ task[c].execution_id = id
                       /\ task'[c] # task[c]
                       /\ \A d \in Callers \ {c} : task'[d] = task[d]]_vars

\* The registry holds the record of a run that is over and answered, next
\* to the record of a later run that has ended too.
C15_Witness ==
    /\ Cardinality(DOMAIN active_executions) = 2
    /\ \E id \in DOMAIN active_executions :
          \A c \in Callers : task[c].execution_id # id
    /\ \E c \in Called : task[c].pc \in {"returned", "raised"}

\* The call is inside an update of the registry: it has written the status
\* of its record and not yet the field that goes with it.
InRegistryMutation(c) == task[c].pc \in {"set_completed_at", "set_error"}

\* C16: no two calls are inside an update of the registry at the same time.
C16_RegistryMutationsSerialized ==
    \A c1, c2 \in Callers :
        c1 # c2 => ~(InRegistryMutation(c1) /\ InRegistryMutation(c2))

\* ------------------------------------- properties of the workflow's state

\* The outcomes of the external calls of a run, in order.
Outcomes(t) == [k \in 1 .. Len(t.log) |-> t.log[k].outcome]

Min(a, b) == IF a < b THEN a ELSE b

\* C17: two calls with the same channel, on a workflow whose status may
\* differ between them: as long as their external calls came out the same,
\* they dispatch the same node with the same payload, and when both have
\* ended on the same outcomes they have dispatched the same nodes, both
\* returned or both raised, and their records have the same status.
C17_StatusIndependent ==
    \A c1, c2 \in Called :
        LET t1 == task[c1]
            t2 == task[c2]
            common == Min(Len(t1.log), Len(t2.log))
        IN  t1.channel_id = t2.channel_id =>
                /\ \A k \in 1 .. common :
                      (\A j \in 1 .. (k - 1) : t1.log[j].outcome = t2.log[j].outcome) =>
                          /\ t1.log[k].node = t2.log[k].node
                          /\ t1.log[k].data = t2.log[k].data
                /\ (/\ t1.pc \in {"returned", "raised"}
                    /\ t2.pc \in {"returned", "raised"}
                    /\ SubSeq(Outcomes(t1), 1, common) = SubSeq(Outcomes(t2), 1, common)) =>
                      /\ Dispatched(t1) = Dispatched(t2)
                      /\ t1.pc = t2.pc
                      /\ RecordOf(c1)["status"] = RecordOf(c2)["status"]

\* Two calls ended on the same outcomes, one on the workflow when it was
\* active and one when it was paused, each having dispatched two nodes.
C17_Witness ==
    \E c1, c2 \in Called :
        /\ task[c1].workflow_status = "active"
        /\ task[c2].workflow_status = "paused"
        /\ task[c1].pc \in {"returned", "raised"}
        /\ task[c2].pc \in {"returned", "raised"}
        /\ task[c1].channel_id = task[c2].channel_id
        /\ Len(task[c1].log) = 2
        /\ Outcomes(task[c1]) = Outcomes(task[c2])

\* C18: no step of a call of execute_workflow changes the stored workflow:
\* its id, its node list with every node's connections and config, or its
\* status.
C18_WorkflowNeverWritten ==
    [][(task' # task \/ active_executions' # active_executions) =>
          workflow' = workflow]_vars

\* One call has returned and one has raised on a workflow of two nodes.
C18_Witness ==
    /\ Len(Nodes) = 2
    /\ \E c1, c2 \in Called :
          /\ task[c1].pc = "returned"
          /\ task[c2].pc = "raised"
          /\ task[c2].log # << >>

\* C19: in every state a record with the status completed has the field
\* completed_at, and a record with the status running or error has not.
C19_CompletedAtIffCompleted ==
    \A id \in DOMAIN active_executions :
        active_executions[id]["status"] = "completed"
            <=> "completed_at" \in DOMAIN active_executions[id]

\* ------------------------------------------------ properties of the payload

\* C20: the first node dispatched receives the trigger data, and every
\* other node receives the payload left by the node dispatched just before
\* it, whichever node of the graph that is.
C20_PayloadThreadedLinearly ==
    \A c \in Called :
        LET t == task[c]
        IN  /\ t.log # << >> => t.log[1].data = TriggerData
            /\ \A k \in 1 .. Len(t.log) :
                  ~t.log[k].raised =>
                      DataAfter(t, k) = HandlerResult(t, t.log[k]).value

\* The trigger has the successors [S1, S2], S1 built a payload of its own,
\* and S2 received that payload.
C20_Witness ==
    \E c \in Called :
        LET t == task[c]
        IN  /\ Len(t.log) = 3
            /\ Nodes[FindNode(Nodes, t.log[1].node)].connections
                  = <<t.log[2].node, t.log[3].node>>
            /\ t.log[3].node \notin Reachable(Nodes, t.log[2].node, {})
            /\ t.log[3].data.by = t.log[2].node

\* ------------------------------------------------ properties of dispatch

\* C21: a call that built a path and has ended without a condition coming
\* out false and without a handler raising has returned, has dispatched
\* every existing node of the path once, in path order, and its record is
\* completed.
C21_OnlyConditionsHalt ==
    \A c \in Called :
        LET t == task[c]
        IN  (/\ t.pc \in {"returned", "raised"}
             /\ ~HasNoTrigger
             /\ \A k \in 1 .. Len(t.log) : ~Stops(t.log[k])) =>
                /\ t.pc = "returned"
                /\ Dispatched(t) = Existing(Nodes, t.execution_path)
                /\ \A i, j \in 1 .. Len(t.log) :
                      i # j => t.log[i].node # t.log[j].node
                /\ RecordOf(c)["status"] = "completed"

\* A run over a path of three ids whose second names no node has returned,
\* having dispatched the trigger and the node after the missing id.
C21_Witness ==
    \E c \in Called :
        LET t == task[c]
        IN  /\ t.pc = "returned"
            /\ \A k \in 1 .. Len(t.log) : ~Stops(t.log[k])
            /\ Len(t.execution_path) = 3
            /\ FindNode(Nodes, t.execution_path[2]) = 0
            /\ Len(t.log) = 2

\* The entry is of a node that builds no payload: an output node that did
\* not raise, a condition that came out true, a trigger, or an action whose
\* action_type is neither http_request nor data_transform.
PassThrough(entry) ==
    /\ ~entry.raised
    /\ \/ entry.type \in {"output", "trigger"}
       \/ entry.type = "condition" /\ entry.outcome = "true"
       \/ /\ entry.type = "action"
          /\ ConfigGet(Nodes[FindNode(Nodes, entry.node)].config,
                       "action_type", "None")
                \notin {"http_request", "data_transform"}

\* C22: after a node that builds no payload was dispatched, the payload of
\* the run, which the next node dispatched receives, is the payload that
\* node received.
C22_PassThroughKeepsPayload ==
    \A c \in Called :
        \A k \in 1 .. Len(task[c].log) :
            LET t == task[c]
            IN  PassThrough(t.log[k]) =>
                    /\ DataAfter(t, k) = t.log[k].data
                    /\ k < Len(t.log) => t.log[k + 1].data = t.log[k].data

\* A trigger, then a node that built a payload, then an output node whose
\* post went through: the run ended with the payload the output node had
\* received.
C22_Witness ==
    \E c \in Called :
        LET t == task[c]
        IN  /\ t.pc = "returned"
            /\ Len(t.log) = 3
            /\ t.log[1].type = "trigger"
            /\ t.log[2].type \in {"action", "ai_agent", "transform"}
            /\ t.log[2].data # DataAfter(t, 2)
            /\ t.log[3].type = "output"
            /\ t.log[3].outcome = "posted"
            /\ t.current_data = t.log[3].data

\* C23: the path of a run starts at the trigger node that no trigger node
\* precedes in the node list, that node is dispatched first, with the trigger
\* data, and the first node dispatched that is not a trigger receives the
\* trigger data too.
C23_StartsAtFirstTrigger ==
    \A c \in Called :
        LET t == task[c]
        IN  /\ t.execution_path # << >> =>
                  \E i \in 1 .. Len(Nodes) :
                      /\ Nodes[i].type = "trigger"
                      /\ \A j \in 1 .. (i - 1) : Nodes[j].type # "trigger"
                      /\ t.execution_path[1] = Nodes[i].id
            /\ t.log # << >> =>
                  /\ t.log[1].node = t.execution_path[1]
                  /\ t.log[1].data = TriggerData
            /\ \A k \in 1 .. Len(t.log) :
                  (/\ t.log[k].type # "trigger"
                   /\ \A j \in 1 .. (k - 1) : t.log[j].type = "trigger") =>
                      t.log[k].data = TriggerData

\* The list is [action, trigger, trigger]; the run started at node 2 and
\* dispatched node 1 after it.
C23_Witness ==
    \E c \in Called :
        LET t == task[c]
        IN  /\ Len(Nodes) = 3
            /\ Nodes[1].type # "trigger"
            /\ Nodes[2].type = "trigger"
            /\ Nodes[3].type = "trigger"
            /\ Len(t.log) >= 2
            /\ t.log[1].node = 2
            /\ t.log[2].node = 1

\* C24: every node of the list that is reachable from the start id along
\* connections of nodes of the list is in the returned path.
C24_PathComplete ==
    call.returned =>
        \A m \in ReachableNodes(Nodes, call.start_node_id) :
            Pos(call.path, m) # 0

\* Node 1 has two successors of its own, both nodes of the list, and the
\* path from 1 holds all three.
C24_Witness ==
    /\ call.returned
    /\ call.start_node_id = 1
    /\ Len(Nodes) = 3
    /\ Len(Nodes[1].connections) >= 2
    /\ ReachableNodes(Nodes, 1) = {1, 2, 3}
    /\ Len(call.path) = 3

\* C25: once a condition node came out false, no id that comes after it in
\* the path is dispatched, whatever route leads to it from the trigger.
C25_FalseConditionStopsPath ==
    \A c \in Called :
        \A k \in 1 .. Len(task[c].log) :
            LET t == task[c]
                entry == t.log[k]
            IN  (entry.type = "condition" /\ entry.outcome = "false") =>
                    \A j \in 1 .. Len(t.execution_path) :
                        Pos(t.execution_path, entry.node) < j =>
                            t.execution_path[j] \notin Range(Dispatched(t))

\* The trigger has the successors [condition, S2], the condition came out
\* false, and the run returned without dispatching S2, which the trigger
\* reaches without passing the condition.
C25_Witness ==
    \E c \in Called :
        LET t == task[c]
        IN  /\ t.pc = "returned"
            /\ Len(t.log) = 2
            /\ t.log[2].type = "condition"
            /\ t.log[2].outcome = "false"
            /\ Len(t.execution_path) = 3
            /\ FindNode(Nodes, t.execution_path[3]) # 0
            /\ t.execution_path[3]
                  \in Reachable(Nodes, t.execution_path[1], {t.log[2].node})

\* C26: at every point of a run the nodes dispatched so far are the first
\* ones of the path's ids that name a node, in the order of the path, and
\* none is dispatched twice.
C26_DispatchIsPathPrefix ==
    \A c \in Called :
        LET t == task[c]
            existing == Existing(Nodes, t.execution_path)
        IN  /\ Len(t.log) <= Len(existing)
            /\ Dispatched(t) = SubSeq(existing, 1, Len(t.log))
            /\ \A i, j \in 1 .. Len(t.log) : i # j => t.log[i].node # t.log[j].node
            /\ t.pc = "for" =>
                  Dispatched(t) =
                      Existing(Nodes, SubSeq(t.execution_path, 1, t.position - 1))

\* A run is in its loop, past an id that names no node, with the trigger
\* dispatched and one node to go.
C26_Witness ==
    \E c \in Called :
        LET t == task[c]
        IN  /\ t.pc = "for"
            /\ Len(t.log) = 1
            /\ t.position = 3
            /\ FindNode(Nodes, t.execution_path[2]) = 0
            /\ FindNode(Nodes, t.execution_path[3]) # 0

\* C27: an ai_agent node whose agent.run fails raises: it is the last node
\* dispatched, the run goes to the except clause, and the call raises that
\* failure with the record error and the failure's message in it.
C27_AgentFailureEndsRun ==
    \A c \in Called :
        \A k \in 1 .. Len(task[c].log) :
            LET t == task[c]
                entry == t.log[k]
            IN  (entry.type = "ai_agent" /\ entry.outcome = "raises") =>
                    /\ entry.raised
                    /\ k = Len(t.log)
                    /\ t.pc \in {"mark_error", "set_error", "notify", "raised"}
                    /\ t.e = "agent.run failed"
                    /\ t.pc = "raised" =>
                          /\ RecordOf(c)["status"] = "error"
                          /\ RecordOf(c)["error"] = "agent.run failed"
                          /\ "completed_at" \notin DOMAIN RecordOf(c)

\* Trigger -> AIAgent(fails) -> a node: the call has raised with the node
\* after the AIAgent never dispatched.
C27_Witness ==
    \E c \in Called :
        LET t == task[c]
        IN  /\ t.pc = "raised"
            /\ Len(t.log) = 2
            /\ t.log[2].type = "ai_agent"
            /\ t.log[2].outcome = "raises"
            /\ Len(Existing(Nodes, t.execution_path)) = 3

\* C28: a record that is running is completed or error at some later time.
C28_RunsEnd ==
    \A id \in ExecutionIds :
        (id \in DOMAIN active_executions
            /\ active_executions[id]["status"] = "running")
        ~> (id \in DOMAIN active_executions
            /\ active_executions[id]["status"] \in Terminal)

\* A run on a workflow whose trigger and second node lead to each other has
\* ended.
C28_Witness ==
    /\ Len(Nodes) >= 2
    /\ Nodes[1].type = "trigger"
    /\ Nodes[1].connections = <<2>>
    /\ Nodes[2].connections = <<1>>
    /\ \E c \in Called :
          /\ task[c].pc = "returned"
          /\ RecordOf(c)["status"] = "completed"
          /\ Len(task[c].log) = 2

\* The calls of execute_workflow that create their record in this step.
Creating == {c \in Callers : task[c].pc = "idle" /\ task'[c].pc = "try"}

\* C29: the number of active executions that health and the status command
\* report is 0 at first, grows by one with every record created and changes
\* with nothing else: it is the number of records ever created.
C29_ActiveCountsAllRecords ==
    /\ health = 0 /\ system_status = 0
    /\ [][/\ health' = health + Cardinality(Creating)
          /\ system_status' = system_status + Cardinality(Creating)]_vars

\* Two records were created and both runs are over: 2 is reported with no
\* record running.
C29_Witness ==
    /\ health = 2
    /\ system_status = 2
    /\ \A id \in DOMAIN active_executions :
          active_executions[id]["status"] \in Terminal
    /\ \E id \in DOMAIN active_executions :
          "completed_at" \in DOMAIN active_executions[id]

\* The ids the first trigger node of the list reaches along connections.
FromFirstTrigger ==
    IF HasNoTrigger THEN {}
    ELSE LET first == CHOOSE i \in 1 .. Len(Nodes) :
                        /\ Nodes[i].type = "trigger"
                        /\ \A j \in 1 .. (i - 1) : Nodes[j].type # "trigger"
         IN  Reachable(Nodes, Nodes[first].id, {})

\* C30: every node a run dispatches is reachable from the first trigger
\* node of the list.
C30_OnlyFromFirstTrigger ==
    \A c \in Called :
        Range(Dispatched(task[c])) \subseteq FromFirstTrigger

\* The list holds a second trigger with a successor that the first trigger
\* does not reach; the run has returned and dispatched the first trigger
\* alone.
C30_Witness ==
    \E c \in Called :
        /\ task[c].pc = "returned"
        /\ Len(Nodes) = 3
        /\ Nodes[1].type = "trigger"
        /\ Nodes[2].type = "trigger"
        /\ Nodes[2].connections = <<3>>
        /\ FromFirstTrigger = {1}
        /\ Dispatched(task[c]) = <<1>>

====
